---- MODULE Spec2Model ----
(***************************************************************************)
(* RecordSetsController (designate/api/v2/controllers/recordsets.py):      *)
(* the five operations of the recordset collection of a zone, run by       *)
(* concurrent API workers against central_api (the Directory Service).     *)
(* A worker advances from one central_api call to the next; everything     *)
(* the handler computes between two calls belongs to the step of the call  *)
(* that precedes it.                                                       *)
(***************************************************************************)
EXTENDS Integers, Sequences, FiniteSets, TLC

VARIABLES recordsets,   \* central storage: the set of persisted recordsets
          req,          \* per API worker: the request it serves and its locals
          lastid,       \* central storage: the last recordset id handed out
          nreq          \* number of requests accepted so far

vars == <<recordsets, req, lastid, nreq>>

(* ------------------------------ bounds -------------------------------- *)
MaxRequests == 2        \* requests served in one behaviour
MaxId == 4              \* largest recordset id central can hand out

Workers == {"w1", "w2"}

(* ------------------------------ values -------------------------------- *)
None == "None"          \* Python None for string-valued fields
ZoneIds == {"z1", "z2"}
Domains == {"z1"}       \* zones that exist in central
DomainName(zone_id) == IF zone_id = "z1" THEN "example.com." ELSE None
RootName == "example.com."
SubName == "a.example.com."
D1 == "1.2.3.4"
D2 == "5.6.7.8"
KnownTypes == {"A", "NS", "SOA"}
Statuses == {"ACTIVE", "PENDING"}

\* RecordSet(): a fresh object, no field set (ttl 0 stands for ttl None)
NoRecordSet ==
    [id |-> 0, domain_id |-> None, name |-> None, type |-> None, ttl |-> 0,
     records |-> <<>>, managed |-> FALSE, status |-> None]

NoBody == [name |-> None, type |-> None, ttl |-> 0, records |-> <<>>]
NoParams ==
    [sort_key |-> None, sort_dir |-> None, limit |-> 0, marker |-> 0,
     name |-> None, type |-> None, ttl |-> 0, data |-> None, other |-> None]

\* request.body_dict of a create: complete, SOA, SOA and malformed, partial
CreateBodies ==
    { [NoBody EXCEPT !.name = SubName, !.type = "A", !.ttl = 300,
                     !.records = <<D2>>],
      [NoBody EXCEPT !.name = RootName, !.type = "SOA", !.ttl = 300,
                     !.records = <<D1>>],
      [NoBody EXCEPT !.type = "SOA", !.ttl = -5],
      [NoBody EXCEPT !.ttl = 600] }

\* request.body_dict of an update: a partial overlay
UpdateBodies ==
    { [NoBody EXCEPT !.ttl = 600],
      [NoBody EXCEPT !.records = <<D2>>],
      [NoBody EXCEPT !.name = RootName, !.type = "SOA"],
      [NoBody EXCEPT !.ttl = -5] }

\* query parameters of a list request
ParamSet ==
    { NoParams,
      [NoParams EXCEPT !.sort_key = "sort_bogus"],
      [NoParams EXCEPT !.sort_key = "sort_bogus", !.data = D1],
      [NoParams EXCEPT !.sort_key = "ttl", !.sort_dir = "desc", !.data = D1],
      [NoParams EXCEPT !.data = D1, !.limit = 1],
      [NoParams EXCEPT !.data = D1, !.marker = 1],
      [NoParams EXCEPT !.type = "A", !.data = D2],
      [NoParams EXCEPT !.type = "A", !.data = ""],
      [NoParams EXCEPT !.type = "NS"],
      [NoParams EXCEPT !.type = "A", !.other = "x"] }

\* the requests the workers are given: <<zone_id, ...>>; a zone that does not
\* exist is asked for with one or two of the choices
MissingZones == ZoneIds \ Domains

GetOneRequests == (Domains \X (1..MaxId)) \cup (MissingZones \X {1})

GetAllRequests ==
    (Domains \X ParamSet)
      \cup (MissingZones \X {NoParams, [NoParams EXCEPT !.sort_key = "sort_bogus"]})

PostAllRequests ==
    (Domains \X CreateBodies)
      \cup (MissingZones \X {[NoBody EXCEPT !.name = SubName, !.type = "A",
                                           !.ttl = 300, !.records = <<D2>>]})

PutOneRequests ==
    (Domains \X (1..MaxId) \X UpdateBodies \X BOOLEAN)
      \cup (MissingZones \X {1} \X {[NoBody EXCEPT !.ttl = 600]} \X {TRUE})

DeleteOneRequests == (Domains \X (1..MaxId)) \cup (MissingZones \X {1})

NoLink == [zone_id |-> None, recordset_id |-> 0]

\* A worker: the request (op, arguments, context), where it stands (pc: the
\* central_api call it makes next), the handler's locals (recordset,
\* recordsets, recordsets_with_data), what get_recordset returned (fetched),
\* the central_api calls made so far, and the response.
Idle ==
    [op |-> "idle", pc |-> "idle", zone_id |-> None, recordset_id |-> 0,
     params |-> NoParams, body |-> NoBody, edit_managed_records |-> FALSE,
     fetched |-> NoRecordSet, recordset |-> NoRecordSet, recordsets |-> <<>>,
     recordsets_with_data |-> {}, calls |-> <<>>,
     error |-> None, status_int |-> 0, location |-> NoLink, result |-> <<>>]

(* ------------- central_api: the Directory Service boundary ------------ *)
\* central_api.get_domain: the zone, or NotFound (the empty set)
get_domain(zone_id) == {z \in Domains : z = zone_id}

\* central_api.get_recordset: the recordset of that zone, or NotFound
get_recordset(store, zone_id, recordset_id) ==
    {rs \in store : /\ rs.id = recordset_id
                    /\ rs.domain_id = zone_id
                    /\ zone_id \in Domains}

\* equality filters of a criterion; an absent key matches everything
Matches(rs, criterion) ==
    /\ rs.domain_id = criterion.domain_id
    /\ criterion.name = None \/ rs.name = criterion.name
    /\ criterion.type = None \/ rs.type = criterion.type
    /\ criterion.ttl = 0 \/ rs.ttl = criterion.ttl

SortVal(rs, sort_key) == IF sort_key = "ttl" THEN rs.ttl ELSE rs.id

Before(a, b, sort_key, sort_dir) ==
    LET lt == \/ SortVal(a, sort_key) < SortVal(b, sort_key)
              \/ /\ SortVal(a, sort_key) = SortVal(b, sort_key)
                 /\ a.id < b.id
    IN  IF sort_dir = "desc" THEN ~lt ELSE lt

RECURSIVE SortBy(_, _, _)
SortBy(S, sort_key, sort_dir) ==
    IF S = {} THEN <<>>
    ELSE LET first == CHOOSE x \in S :
                        \A y \in S \ {x} : Before(x, y, sort_key, sort_dir)
         IN  <<first>> \o SortBy(S \ {first}, sort_key, sort_dir)

\* the part of an ordered list after the marker, cut to limit entries
Page(seq, marker, limit) ==
    LET at == {i \in 1..Len(seq) : seq[i].id = marker}
        from == IF at = {} THEN 1 ELSE (CHOOSE i \in at : TRUE) + 1
        rest == SubSeq(seq, from, Len(seq))
    IN  IF limit > 0 /\ Len(rest) > limit THEN SubSeq(rest, 1, limit) ELSE rest

\* central_api.find_recordsets: ordered, paginated
find_recordsets(store, criterion, marker, limit, sort_key, sort_dir) ==
    Page(SortBy({rs \in store : Matches(rs, criterion)}, sort_key, sort_dir),
         marker, limit)

\* the Records table: one record per value of a recordset
Records(store) ==
    UNION {{[recordset_id |-> rs.id, domain_id |-> rs.domain_id,
             data |-> rs.records[i]] : i \in 1..Len(rs.records)} : rs \in store}

\* central_api.find_records(criterion={'data': data, 'domain_id': zone_id})
find_records(store, data, zone_id) ==
    {rec \in Records(store) : rec.data = data /\ rec.domain_id = zone_id}

(* ------------- collaborators of the controller (not in src/) ---------- *)
\* DesignateAdapter.render('API_v2', recordset): the API representation,
\* with the self link of the resource
SelfLink(rs) == [zone_id |-> rs.domain_id, recordset_id |-> rs.id]

render(rs) ==
    [id |-> rs.id, zone_id |-> rs.domain_id, name |-> rs.name,
     type |-> rs.type, ttl |-> rs.ttl, records |-> rs.records,
     status |-> rs.status, links |-> [self |-> SelfLink(rs)]]

renderList(seq) == [i \in 1..Len(seq) |-> render(seq[i])]

\* DesignateAdapter.parse('API_v2', body, recordset): the keys of the body
\* laid over the object
parse(body, recordset) ==
    [recordset EXCEPT
       !.name = IF body.name = None THEN @ ELSE body.name,
       !.type = IF body.type = None THEN @ ELSE body.type,
       !.ttl = IF body.ttl = 0 THEN @ ELSE body.ttl,
       !.records = IF body.records = <<>> THEN @ ELSE body.records]

\* recordset.validate(): required fields present, type known, ttl in range
Valid(recordset) ==
    /\ recordset.name # None
    /\ recordset.type \in KnownTypes
    /\ recordset.ttl >= 0

\* utils.get_paging_params(params, sort_keys): the error it raises, or None
get_paging_params(params, sort_keys) ==
    IF \/ params.limit < 0
       \/ params.sort_dir \notin {None, "asc", "desc"}
       \/ params.sort_key # None /\ params.sort_key \notin sort_keys
    THEN "ValidationError" ELSE None

\* RestController._apply_filter_params(params, accepted_filters, {}):
\* the error it raises, or None
apply_filter_params(params, accepted_filters) ==
    IF params.other # None /\ "other" \notin accepted_filters
    THEN "BadRequest" ELSE None

\* central_api.update_recordset(context, recordset): NotFound (the store
\* unchanged) when the recordset is gone, else the stored object replaced
update_recordset(store, recordset, status) ==
    IF \E rs \in store : rs.id = recordset.id
    THEN {rs \in store : rs.id # recordset.id}
           \cup {[recordset EXCEPT !.status = status]}
    ELSE store

\* central_api.delete_recordset(context, zone_id, recordset_id)
delete_recordset(store, zone_id, recordset_id) ==
    {rs \in store : ~(rs.id = recordset_id /\ rs.domain_id = zone_id)}

(* --------------------- RecordSetsController --------------------------- *)
SORT_KEYS ==
    {"created_at", "id", "updated_at", "domain_id", "tenant_id",
     "name", "type", "ttl", "records"}

accepted_filters == {"name", "type", "ttl", "data"}

\* get_all without the zone lookup deciding anything
GetAllDomainError_Never(zone_id) == None

\* get_all: the zone must exist before anything else is looked at
GetAllDomainError(zone_id) ==
    IF get_domain(zone_id) = {} THEN "NotFound" ELSE None

\* get_all with the pagination params left unchecked
GetAllParamsError_FiltersOnly(params) ==
    apply_filter_params(params, accepted_filters)

\* get_all: pagination params, then filter params
GetAllParamsError(params) ==
    LET paging == get_paging_params(params, SORT_KEYS)
    IN  IF paging # None THEN paging
        ELSE apply_filter_params(params, accepted_filters)

\* get_all: the criterion handed to find_recordsets, 'data' popped
Criterion(params, zone_id) ==
    [name |-> params.name, type |-> params.type, ttl |-> params.ttl,
     domain_id |-> zone_id]

\* get_all: "if data:"
HasData(data) == data # None /\ data # ""

\* get_all: recordsets_with_data.update([record.recordset_id ...])
WithData(records) == {rec.recordset_id : rec \in records}

\* get_all with the page returned as it came
NewRsets_Unfiltered(page, with_data) == page

\* get_all: new_rsets, the recordsets of the page whose id is in the set
NewRsets(page, with_data) ==
    LET Keep(rs) == rs.id \in with_data
    IN  SelectSeq(page, Keep)

\* post_all without the SOA rule
PostAllError_ValidateOnly(recordset) ==
    IF ~Valid(recordset) THEN "ValidationError" ELSE None

\* post_all: validate(), then the SOA rule
PostAllError(recordset) ==
    IF ~Valid(recordset) THEN "ValidationError"
    ELSE IF recordset.type = "SOA" THEN "BadRequest"
    ELSE None

CreateStatus(status) == IF status = "PENDING" THEN 202 ELSE 201

\* put_one without the managed rule
ManagedError_Never(recordset, edit_managed_records) == None

\* put_one: the managed rule
ManagedError(recordset, edit_managed_records) ==
    IF recordset.managed /\ ~edit_managed_records THEN "BadRequest" ELSE None

\* put_one: the SOA rule
UpdateSoaError(recordset) ==
    IF recordset.type = "SOA" THEN "BadRequest" ELSE None

\* put_one without the zone-root NS rule
RootNsError_Never(recordset, zone_name) == None

\* put_one: the zone-root NS rule, once the zone has been fetched
RootNsError(recordset, zone_name) ==
    IF recordset.name = zone_name THEN "BadRequest" ELSE None

\* put_one with the body replacing the fetched recordset instead of being
\* laid over it
PutOneParse_BodyOnly(body, recordset) ==
    [parse(body, NoRecordSet) EXCEPT !.id = recordset.id,
                                     !.domain_id = recordset.domain_id,
                                     !.managed = recordset.managed]

\* put_one: the body laid over the fetched recordset, then validate()
PutOneParse(body, recordset) == parse(body, recordset)

PutOneValidateError(recordset) ==
    IF ~Valid(recordset) THEN "ValidationError" ELSE None

UpdateStatus(status) == IF status = "PENDING" THEN 202 ELSE 200

\* delete_one without the SOA rule
DeleteSoaError_Never(recordset) == None

\* delete_one: the SOA rule
DeleteSoaError(recordset) ==
    IF recordset.type = "SOA" THEN "BadRequest" ELSE None

\* delete_one answering the way put_one does
DeleteStatus_AsUpdate(status) == IF status = "PENDING" THEN 202 ELSE 200

DeleteStatus(status) == 202

(* ------------------------------ state --------------------------------- *)
RecordSet(id, name, type, records, managed) ==
    [id |-> id, domain_id |-> "z1", name |-> name, type |-> type,
     ttl |-> 300, records |-> records, managed |-> managed,
     status |-> "ACTIVE"]

\* A zone as central creates it (SOA and NS at the root, both managed), and
\* one A recordset, created by a user or by the system.
Init ==
    /\ \E managed \in BOOLEAN :
         recordsets =
           { RecordSet(1, RootName, "SOA", <<"ns1.example.com. admin 1">>, TRUE),
             RecordSet(2, RootName, "NS", <<"ns1.example.com.">>, TRUE),
             RecordSet(3, SubName, "A", <<D1>>, managed) }
    /\ req = [w \in Workers |-> Idle]
    /\ lastid = 3
    /\ nreq = 0

\* a worker takes the next request
Accept(w) ==
    /\ req[w].pc \in {"idle", "done"}
    /\ nreq < MaxRequests
    /\ nreq' = nreq + 1

Fail(r, error) == [r EXCEPT !.pc = "done", !.error = error]

(* ------------------------------ get_one ------------------------------- *)
GetOne(w) ==
    /\ Accept(w)
    /\ \E args \in GetOneRequests :
         LET zone_id == args[1]
             recordset_id == args[2]
             r == [Idle EXCEPT !.op = "get_one", !.zone_id = zone_id,
                               !.recordset_id = recordset_id,
                               !.calls = <<"get_recordset">>]
             found == get_recordset(recordsets, zone_id, recordset_id)
         IN  req' = [req EXCEPT ![w] =
               IF found = {} THEN Fail(r, "NotFound")
               ELSE [r EXCEPT !.pc = "done", !.status_int = 200,
                              !.recordset = CHOOSE rs \in found : TRUE,
                              !.result = renderList(<<CHOOSE rs \in found : TRUE>>)]]
    /\ UNCHANGED <<recordsets, lastid>>

(* ------------------------------ get_all ------------------------------- *)
GetAllGetDomain(w) ==
    /\ Accept(w)
    /\ \E args \in GetAllRequests :
         LET zone_id == args[1]
             params == args[2]
             r == [Idle EXCEPT !.op = "get_all", !.zone_id = zone_id,
                               !.params = params,
                               !.calls = <<"get_domain">>]
         IN  req' = [req EXCEPT ![w] =
               IF GetAllDomainError(zone_id) # None
               THEN Fail(r, GetAllDomainError(zone_id))
               ELSE IF GetAllParamsError(params) # None
               THEN Fail(r, GetAllParamsError(params))
               ELSE [r EXCEPT !.pc = "find_recordsets"]]
    /\ UNCHANGED <<recordsets, lastid>>

GetAllFindRecordsets(w) ==
    /\ req[w].op = "get_all"
    /\ req[w].pc = "find_recordsets"
    /\ LET r == req[w]
           page == find_recordsets(recordsets,
                                   Criterion(r.params, r.zone_id),
                                   r.params.marker, r.params.limit,
                                   r.params.sort_key, r.params.sort_dir)
           called == [r EXCEPT !.recordsets = page,
                               !.calls = Append(@, "find_recordsets")]
       IN  req' = [req EXCEPT ![w] =
             IF HasData(r.params.data)
             THEN [called EXCEPT !.pc = "find_records"]
             ELSE [called EXCEPT !.pc = "done", !.status_int = 200,
                                 !.result = renderList(page)]]
    /\ UNCHANGED <<recordsets, lastid, nreq>>

GetAllFindRecords(w) ==
    /\ req[w].op = "get_all"
    /\ req[w].pc = "find_records"
    /\ LET r == req[w]
           records == find_records(recordsets, r.params.data, r.zone_id)
           new_rsets == NewRsets(r.recordsets, WithData(records))
       IN  req' = [req EXCEPT ![w] =
             [r EXCEPT !.pc = "done", !.status_int = 200,
                       !.recordsets_with_data = WithData(records),
                       !.recordsets = new_rsets,
                       !.calls = Append(@, "find_records"),
                       !.result = renderList(new_rsets)]]
    /\ UNCHANGED <<recordsets, lastid, nreq>>

(* ------------------------------ post_all ------------------------------ *)
PostAll(w) ==
    /\ Accept(w)
    /\ \E args \in PostAllRequests, status \in Statuses :
         LET zone_id == args[1]
             body == args[2]
             r == [Idle EXCEPT !.op = "post_all", !.zone_id = zone_id,
                               !.body = body]
             recordset == parse(body, NoRecordSet)
             created == [recordset EXCEPT !.id = lastid + 1,
                                          !.domain_id = zone_id,
                                          !.status = status]
             called == [r EXCEPT !.calls = <<"create_recordset">>]
         IN  IF PostAllError(recordset) # None
             THEN /\ req' = [req EXCEPT ![w] =
                       Fail([r EXCEPT !.recordset = recordset],
                            PostAllError(recordset))]
                  /\ UNCHANGED <<recordsets, lastid>>
             ELSE IF zone_id \notin Domains
             THEN /\ req' = [req EXCEPT ![w] = Fail(called, "NotFound")]
                  /\ UNCHANGED <<recordsets, lastid>>
             ELSE /\ lastid < MaxId
                  /\ recordsets' = recordsets \cup {created}
                  /\ lastid' = lastid + 1
                  /\ req' = [req EXCEPT ![w] =
                       [called EXCEPT
                          !.pc = "done",
                          !.recordset = created,
                          !.status_int = CreateStatus(created.status),
                          !.location = render(created).links.self,
                          !.result = renderList(<<created>>)]]

(* ------------------------------ put_one ------------------------------- *)
\* after the guards: parse, validate, and on to update_recordset
PutOneConvert(r) ==
    LET recordset == PutOneParse(r.body, r.recordset)
        parsed == [r EXCEPT !.recordset = recordset]
    IN  IF PutOneValidateError(recordset) # None
        THEN Fail(parsed, PutOneValidateError(recordset))
        ELSE [parsed EXCEPT !.pc = "update_recordset"]

PutOneGetRecordset(w) ==
    /\ Accept(w)
    /\ \E args \in PutOneRequests :
         LET zone_id == args[1]
             recordset_id == args[2]
             body == args[3]
             edit_managed_records == args[4]
             r == [Idle EXCEPT !.op = "put_one", !.zone_id = zone_id,
                               !.recordset_id = recordset_id,
                               !.body = body,
                               !.edit_managed_records = edit_managed_records,
                               !.calls = <<"get_recordset">>]
             found == get_recordset(recordsets, zone_id, recordset_id)
             recordset == CHOOSE rs \in found : TRUE
             got == [r EXCEPT !.fetched = recordset, !.recordset = recordset]
         IN  req' = [req EXCEPT ![w] =
               IF found = {} THEN Fail(r, "NotFound")
               ELSE IF ManagedError(recordset, edit_managed_records) # None
               THEN Fail(got, ManagedError(recordset, edit_managed_records))
               ELSE IF UpdateSoaError(recordset) # None
               THEN Fail(got, UpdateSoaError(recordset))
               ELSE IF recordset.type = "NS"
               THEN [got EXCEPT !.pc = "get_domain"]
               ELSE PutOneConvert(got)]
    /\ UNCHANGED <<recordsets, lastid>>

PutOneGetDomain(w) ==
    /\ req[w].op = "put_one"
    /\ req[w].pc = "get_domain"
    /\ LET r == [req[w] EXCEPT !.calls = Append(@, "get_domain")]
           zone == get_domain(r.zone_id)
       IN  req' = [req EXCEPT ![w] =
             IF zone = {} THEN Fail(r, "NotFound")
             ELSE IF RootNsError(r.recordset, DomainName(r.zone_id)) # None
             THEN Fail(r, RootNsError(r.recordset, DomainName(r.zone_id)))
             ELSE PutOneConvert(r)]
    /\ UNCHANGED <<recordsets, lastid, nreq>>

PutOneUpdate(w) ==
    /\ req[w].op = "put_one"
    /\ req[w].pc = "update_recordset"
    /\ \E status \in Statuses :
         LET r == [req[w] EXCEPT !.calls = Append(@, "update_recordset")]
             stored == update_recordset(recordsets, r.recordset, status)
             updated == [r.recordset EXCEPT !.status = status]
         IN  IF \A rs \in recordsets : rs.id # r.recordset.id
             THEN /\ req' = [req EXCEPT ![w] = Fail(r, "NotFound")]
                  /\ UNCHANGED recordsets
             ELSE /\ recordsets' = stored
                  /\ req' = [req EXCEPT ![w] =
                       [r EXCEPT !.pc = "done", !.recordset = updated,
                                 !.status_int = UpdateStatus(updated.status),
                                 !.result = renderList(<<updated>>)]]
    /\ UNCHANGED <<lastid, nreq>>

(* ----------------------------- delete_one ----------------------------- *)
\* delete_one with the SOA rule applied after delete_recordset has been called
DeleteOneGetRecordset_GuardLast(w) ==
    /\ Accept(w)
    /\ \E args \in DeleteOneRequests :
         LET zone_id == args[1]
             recordset_id == args[2]
             r == [Idle EXCEPT !.op = "delete_one", !.zone_id = zone_id,
                               !.recordset_id = recordset_id,
                               !.calls = <<"get_recordset">>]
             found == get_recordset(recordsets, zone_id, recordset_id)
             recordset == CHOOSE rs \in found : TRUE
             got == [r EXCEPT !.fetched = recordset, !.recordset = recordset,
                              !.calls = <<"get_recordset", "delete_recordset">>]
         IN  IF found = {}
             THEN /\ req' = [req EXCEPT ![w] = Fail(r, "NotFound")]
                  /\ UNCHANGED recordsets
             ELSE /\ recordsets' =
                       delete_recordset(recordsets, zone_id, recordset_id)
                  /\ req' = [req EXCEPT ![w] =
                       IF DeleteSoaError(recordset) # None
                       THEN Fail(got, DeleteSoaError(recordset))
                       ELSE [got EXCEPT !.pc = "done", !.status_int = 202,
                                        !.result = renderList(<<recordset>>)]]
    /\ UNCHANGED lastid

DeleteOneGetRecordset(w) ==
    /\ Accept(w)
    /\ \E args \in DeleteOneRequests :
         LET zone_id == args[1]
             recordset_id == args[2]
             r == [Idle EXCEPT !.op = "delete_one", !.zone_id = zone_id,
                               !.recordset_id = recordset_id,
                               !.calls = <<"get_recordset">>]
             found == get_recordset(recordsets, zone_id, recordset_id)
             recordset == CHOOSE rs \in found : TRUE
             got == [r EXCEPT !.fetched = recordset, !.recordset = recordset]
         IN  req' = [req EXCEPT ![w] =
               IF found = {} THEN Fail(r, "NotFound")
               ELSE IF DeleteSoaError(recordset) # None
               THEN Fail(got, DeleteSoaError(recordset))
               ELSE [got EXCEPT !.pc = "delete_recordset"]]
    /\ UNCHANGED <<recordsets, lastid>>

DeleteOneDelete(w) ==
    /\ req[w].op = "delete_one"
    /\ req[w].pc = "delete_recordset"
    /\ \E status \in Statuses :
         LET r == [req[w] EXCEPT !.calls = Append(@, "delete_recordset")]
             found == get_recordset(recordsets, r.zone_id, r.recordset_id)
             deleted == [(CHOOSE rs \in found : TRUE) EXCEPT !.status = status]
         IN  IF found = {}
             THEN /\ req' = [req EXCEPT ![w] = Fail(r, "NotFound")]
                  /\ UNCHANGED recordsets
             ELSE /\ recordsets' =
                       delete_recordset(recordsets, r.zone_id, r.recordset_id)
                  /\ req' = [req EXCEPT ![w] =
                       [r EXCEPT !.pc = "done", !.recordset = deleted,
                                 !.status_int = DeleteStatus(deleted.status),
                                 !.result = renderList(<<deleted>>)]]
    /\ UNCHANGED <<lastid, nreq>>

(* --------------------------- specification ---------------------------- *)
Next ==
    \E w \in Workers :
       \/ GetOne(w)
       \/ GetAllGetDomain(w)
       \/ GetAllFindRecordsets(w)
       \/ GetAllFindRecords(w)
       \/ PostAll(w)
       \/ PutOneGetRecordset(w)
       \/ PutOneGetDomain(w)
       \/ PutOneUpdate(w)
       \/ DeleteOneGetRecordset(w)
       \/ DeleteOneDelete(w)

Spec == Init /\ [][Next]_vars

(* ------------------------------ claims -------------------------------- *)
Done(w, op) == req[w].op = op /\ req[w].pc = "done"
Called(w, call) == \E i \in 1..Len(req[w].calls) : req[w].calls[i] = call
Mutating == {"create_recordset", "update_recordset", "delete_recordset"}
Lookups == {"get_domain", "get_recordset"}

BadSortKey(params) ==
    /\ params.sort_key # None
    /\ params.sort_key \notin
         {"created_at", "id", "updated_at", "domain_id", "tenant_id",
          "name", "type", "ttl", "records"}

\* C1 as stated: a list request with a sort_key outside the allowed set fails
\* with a validation error and has issued no backend call at all, get_domain
\* included.
C1_NoBackendCallAtAll ==
    \A w \in Workers :
       (req[w].op = "get_all" /\ BadSortKey(req[w].params))
         => /\ req[w].calls = <<>>
            /\ req[w].pc = "done" => req[w].error = "ValidationError"

\* C1 amended: a list request with a sort_key outside the allowed set ends in
\* its first step, having called get_domain and nothing else: with NotFound
\* when the zone does not exist, with a validation error when it does; no
\* recordset or record query is issued.
C1_RejectedBeforeQuery ==
    \A w \in Workers :
       (req[w].op = "get_all" /\ BadSortKey(req[w].params))
         => /\ req[w].pc = "done"
            /\ req[w].calls = <<"get_domain">>
            /\ req[w].result = <<>>
            /\ req[w].error = IF req[w].zone_id \in Domains
                              THEN "ValidationError" ELSE "NotFound"

C1_Witness ==
    \E w \in Workers :
       /\ Done(w, "get_all")
       /\ BadSortKey(req[w].params)
       /\ req[w].zone_id \in Domains
       /\ req[w].error = "ValidationError"

\* the recordsets of a zone that match the metadata filters of a list request
MetaIds(store, zone_id, params) ==
    {rs.id : rs \in {x \in store :
        /\ x.domain_id = zone_id
        /\ params.name = None \/ x.name = params.name
        /\ params.type = None \/ x.type = params.type
        /\ params.ttl = 0 \/ x.ttl = params.ttl}}

\* the recordsets of a zone that own a record with that data
OwnerIds(store, zone_id, data) ==
    {rs.id : rs \in {x \in store :
        /\ x.domain_id = zone_id
        /\ \E i \in 1..Len(x.records) : x.records[i] = data}}

SeqIds(seq) == {seq[i].id : i \in 1..Len(seq)}

RootNs(recordset, zone_id) ==
    recordset.type = "NS" /\ recordset.name = DomainName(zone_id)

\* C3 as stated: an update of a recordset fetched as managed fails with
\* BadRequest without calling update_recordset when the caller lacks the
\* edit-managed capability, and reaches update_recordset when it has it.
C3_CapabilityAloneDecides ==
    \A w \in Workers :
       (Done(w, "put_one") /\ req[w].fetched.managed)
         => IF req[w].edit_managed_records
            THEN Called(w, "update_recordset")
            ELSE req[w].error = "BadRequest" /\ ~Called(w, "update_recordset")

\* C3 amended: an update of a recordset fetched as managed fails with
\* BadRequest without calling update_recordset when the caller lacks the
\* edit-managed capability; with the capability the managed rule passes, and
\* the request reaches update_recordset exactly when the recordset is neither
\* SOA nor the NS set of the zone root and the body laid over it validates.
C3_ManagedRule ==
    \A w \in Workers :
       (Done(w, "put_one") /\ req[w].fetched.managed)
         => IF req[w].edit_managed_records
            THEN Called(w, "update_recordset")
                   = (/\ req[w].fetched.type # "SOA"
                      /\ ~RootNs(req[w].fetched, req[w].zone_id)
                      /\ Valid(parse(req[w].body, req[w].fetched)))
            ELSE req[w].error = "BadRequest" /\ ~Called(w, "update_recordset")

\* the same update of the same managed recordset, refused without the
\* capability and accepted with it
C3_Witness ==
    \E w \in Workers, v \in Workers :
       /\ Done(w, "put_one") /\ Done(v, "put_one")
       /\ req[w].fetched.managed
       /\ req[w].fetched = req[v].fetched
       /\ req[w].body = req[v].body
       /\ ~req[w].edit_managed_records /\ req[w].error = "BadRequest"
       /\ req[v].edit_managed_records /\ req[v].error = None
       /\ Called(v, "update_recordset")

\* C4: an update of a recordset fetched as NS with the name of its zone never
\* reaches update_recordset and ends with BadRequest, whatever the body and
\* the capability of the caller.
C4_RootNsNeverUpdated ==
    \A w \in Workers :
       (req[w].op = "put_one" /\ RootNs(req[w].fetched, req[w].zone_id))
         => /\ req[w].pc \in {"get_domain", "done"}
            /\ ~Called(w, "update_recordset")
            /\ req[w].pc = "done" => req[w].error = "BadRequest"

C4_Witness ==
    \E w \in Workers :
       /\ Done(w, "put_one")
       /\ RootNs(req[w].fetched, req[w].zone_id)
       /\ req[w].edit_managed_records
       /\ req[w].body.type = "SOA"
       /\ req[w].calls = <<"get_recordset", "get_domain">>
       /\ req[w].error = "BadRequest"

\* C5 as stated: a create whose body has type SOA fails with BadRequest,
\* whether the rest of the body is structurally valid or not, and
\* create_recordset is not called.
C5_SoaAlwaysBadRequest ==
    \A w \in Workers :
       (Done(w, "post_all") /\ req[w].body.type = "SOA")
         => req[w].error = "BadRequest" /\ ~Called(w, "create_recordset")

\* C5 amended: a create whose body has type SOA is rejected in its only step
\* and calls nothing: with BadRequest when the body validates, with the
\* validation error of validate(), which runs first, when it does not.
C5_SoaNeverCreated ==
    \A w \in Workers :
       (req[w].op = "post_all" /\ req[w].body.type = "SOA")
         => /\ req[w].pc = "done"
            /\ req[w].calls = <<>>
            /\ req[w].error = IF Valid(parse(req[w].body, NoRecordSet))
                              THEN "BadRequest" ELSE "ValidationError"

C5_Witness ==
    \E w \in Workers :
       /\ Done(w, "post_all")
       /\ req[w].body.type = "SOA"
       /\ Valid(parse(req[w].body, NoRecordSet))
       /\ req[w].error = "BadRequest"

\* C6: the step in which a delete request fetches a recordset of type SOA
\* ends the request with BadRequest, delete_recordset is not called, and the
\* recordset is still stored after it.
C6_SoaNeverDeleted ==
    [][\A w \in Workers :
         (req'[w] # req[w] /\ req'[w].op = "delete_one"
            /\ req'[w].fetched.type = "SOA")
           => /\ req'[w].pc = "done"
              /\ req'[w].error = "BadRequest"
              /\ req'[w].calls = <<"get_recordset">>
              /\ recordsets' = recordsets
              /\ req'[w].fetched \in recordsets'
      ]_vars

C6_Witness ==
    \E w \in Workers :
       /\ Done(w, "delete_one")
       /\ req[w].fetched.type = "SOA"
       /\ req[w].error = "BadRequest"
       /\ req[w].fetched \in recordsets

\* C7: a request that ended in a validation error, a BadRequest or a NotFound
\* of a lookup has issued no mutating call; a mutating call is the last call
\* of its request; get-one and list issue none.
C7_RejectedBeforeMutation ==
    \A w \in Workers :
       LET calls == req[w].calls
           rejected ==
             /\ req[w].pc = "done"
             /\ \/ req[w].error \in {"ValidationError", "BadRequest"}
                \/ /\ req[w].error = "NotFound"
                   /\ calls # <<>>
                   /\ calls[Len(calls)] \in Lookups
       IN  /\ rejected => \A i \in 1..Len(calls) : calls[i] \notin Mutating
           /\ \A i \in 1..Len(calls) : calls[i] \in Mutating => i = Len(calls)
           /\ req[w].op \in {"get_one", "get_all"}
                => \A i \in 1..Len(calls) : calls[i] \notin Mutating

\* every kind of rejection, in requests that mutate
C7_Witness ==
    \E w \in Workers, v \in Workers :
       /\ Done(w, "delete_one") /\ req[w].error = "BadRequest"
       /\ Done(v, "put_one") /\ req[v].error = "ValidationError"
       /\ req[v].calls = <<"get_recordset">>

\* C8: a successful create answers 202 when the returned status is PENDING
\* and 201 otherwise, with the Location header set to the self link of the
\* rendered recordset; a successful update answers 202 when PENDING and 200
\* otherwise; a successful delete answers 202 whatever the returned status.
C8_StatusMapping ==
    \A w \in Workers :
       (req[w].pc = "done" /\ req[w].error = None
          /\ req[w].op \in {"post_all", "put_one", "delete_one"})
         => LET out == req[w].result[1]
                pending == out.status = "PENDING"
            IN  /\ Len(req[w].result) = 1
                /\ req[w].op = "post_all"
                     => /\ req[w].status_int = IF pending THEN 202 ELSE 201
                        /\ req[w].location = out.links.self
                        /\ req[w].location =
                             [zone_id |-> req[w].zone_id,
                              recordset_id |-> out.id]
                /\ req[w].op = "put_one"
                     => /\ req[w].status_int = IF pending THEN 202 ELSE 200
                        /\ req[w].location = NoLink
                /\ req[w].op = "delete_one"
                     => /\ req[w].status_int = 202
                        /\ req[w].location = NoLink

\* a delete completed synchronously and a create still pending
C8_Witness ==
    \E w \in Workers, v \in Workers :
       /\ Done(w, "delete_one") /\ req[w].error = None
       /\ req[w].result[1].status = "ACTIVE"
       /\ req[w].status_int = 202
       /\ Done(v, "post_all") /\ req[v].error = None
       /\ req[v].result[1].status = "PENDING"
       /\ req[v].status_int = 202
       /\ req[v].location.recordset_id = 4

\* C9: get_domain is the first backend call of a list request; when the zone
\* does not exist the request ends with NotFound, without find_recordsets or
\* find_records and without a list; when the zone exists and the parameters
\* are valid the request ends with 200 and a list, which may be empty.
C9_ZoneCheckedFirst ==
    \A w \in Workers :
       req[w].op = "get_all"
         => /\ req[w].calls[1] = "get_domain"
            /\ req[w].zone_id \notin Domains
                 => /\ req[w].pc = "done"
                    /\ req[w].error = "NotFound"
                    /\ req[w].calls = <<"get_domain">>
                    /\ req[w].status_int = 0
            /\ (/\ req[w].zone_id \in Domains
                /\ req[w].pc = "done"
                /\ ~BadSortKey(req[w].params)
                /\ req[w].params.other = None)
                 => /\ req[w].error = None
                    /\ req[w].status_int = 200
                    /\ req[w].calls[2] = "find_recordsets"

\* a missing zone refused, and an empty list returned for a zone that exists
C9_Witness ==
    \E w \in Workers, v \in Workers :
       /\ Done(w, "get_all") /\ req[w].zone_id \notin Domains
       /\ req[w].error = "NotFound"
       /\ Done(v, "get_all") /\ req[v].zone_id \in Domains
       /\ req[v].error = None /\ req[v].status_int = 200
       /\ req[v].result = <<>>

\* C10: update_recordset and delete_recordset act on what the request
\* fetched, without looking at what is stored when they are called: an update
\* stores the body laid over the fetched recordset in place of whatever is
\* stored under that id, a delete removes whatever is stored under that id,
\* and each fails only when nothing is stored under it any more.
C10_MutationFromSnapshot ==
    [][\A w \in Workers :
         LET r == req[w]
             stored == {rs \in recordsets : rs.id = r.fetched.id}
             others == recordsets \ stored
         IN  /\ (r.pc = "update_recordset" /\ req'[w].pc = "done")
                  => IF stored = {}
                     THEN req'[w].error = "NotFound" /\ recordsets' = recordsets
                     ELSE /\ req'[w].error = None
                          /\ \E status \in Statuses :
                               recordsets' = others \cup
                                 {[parse(r.body, r.fetched)
                                     EXCEPT !.status = status]}
             /\ (r.pc = "delete_recordset" /\ req'[w].pc = "done")
                  => IF stored = {}
                     THEN req'[w].error = "NotFound" /\ recordsets' = recordsets
                     ELSE req'[w].error = None /\ recordsets' = others
      ]_vars

\* a lost update: two updates fetched the same recordset, both succeeded, and
\* the records the first one stored are gone
C10_Witness ==
    \E w \in Workers, v \in Workers :
       /\ Done(w, "put_one") /\ Done(v, "put_one")
       /\ req[w].error = None /\ req[v].error = None
       /\ req[w].fetched = req[v].fetched
       /\ req[v].body.records # <<>>
       /\ req[v].result[1].records = req[v].body.records
       /\ req[w].body.records = <<>>
       /\ \E rs \in recordsets :
            /\ rs.id = req[w].fetched.id
            /\ rs.records = req[w].fetched.records
            /\ rs.records # req[v].body.records
            /\ rs.ttl = req[w].body.ttl

====
